---- MODULE Spec2Model ----
(***************************************************************************)
(* A model of the logic_farm_roguelike game loop (src/src/main.rs and      *)
(* src/src/pig.rs): the Money resource, the pig entities with their        *)
(* lifetime timers and character controllers, the player's controller and  *)
(* its collision output, and one frame of the Bevy schedule.               *)
(*                                                                         *)
(* One frame is: BeginFrame (Time and Input<KeyCode> are refreshed), the   *)
(* systems of the Update schedule in any order (they are registered with   *)
(* no ordering constraint), ApplyDeferred (the Commands queued by the      *)
(* systems take effect) and Physics (the Rapier plugin in PostUpdate).     *)
(*                                                                         *)
(* Units: money in dollars, time in seconds, world positions in world      *)
(* units, controller translations of pigs in hundredths of a world unit    *)
(* (the code's 0.01 is 1).  All f32 values of the code that the model      *)
(* reaches are integers far below 2^24, where f32 arithmetic is exact.     *)
(***************************************************************************)
EXTENDS Integers, Sequences, FiniteSets, TLC

(* ------------------------------ bounds -------------------------------- *)

\* Pigs spawned in one run of the crowded world (enough to spend all money).
MaxSpawnsCrowded == 11
\* Pigs spawned in one run of the open world (player moves, contacts happen).
MaxSpawns == 2
\* A frame's delta time is k * DtUnit seconds, k in 0..MaxDtSteps.
MaxDtSteps == 2
DtUnit == 15
\* Keyboard events for the spawn key delivered within one frame.
MaxKeyEvents == 2
\* Entries of the player's collision list after one physics resolution.
MaxCollisions == 1
\* Pigs spawned in one run of the world of all movement keys.
MaxSpawnsKeys == 1
\* Pigs spawned, and entries of a collision list, in one run of the world of
\* long collision lists.
MaxSpawnsScan == 1
MaxCollisionsScan == 2
\* The physics abstraction: the player moves on a lattice of this step,
\* between 0 and MaxCoord on each axis.
Stride == 8
MaxCoord == 8

(* ------------------------- program constants -------------------------- *)

InitialMoney    == 100
SpawnThreshold  == 10
SpawnCost       == 10
SpawnOffsetX    == 32
LifetimeSeconds == 30
PigSpeed        == 100
PlayerSpeed     == 100
SellPrice       == 15
movement_factor == 12
WallEntity      == 0
PlayerEntity    == -1

(* ------------------------------ values -------------------------------- *)

\* Option<T> is a sequence of length at most one.
None    == <<>>
Some(v) == <<v>>

Vec2(x, y) == <<x, y>>

Sign(n) == IF n < 0 THEN -1 ELSE IF n > 0 THEN 1 ELSE 0

Abs(n) == IF n < 0 THEN -n ELSE n

\* The pig's initial KinematicCharacterController.translation, Vec2::new(0.01, 0.0),
\* in hundredths.
InitialTranslation == Some(Vec2(1, 0))

DtSet == {k * DtUnit : k \in 0..MaxDtSteps}

\* The history of a pig's age stops counting here; a pig that expires on time
\* is gone before.
AgeCap == LifetimeSeconds + MaxDtSteps * DtUnit

\* Contact normals: determine_evasion_translation compares each component
\* with 0.0 only, so one normal for each pair of signs stands for all.
Normals == {Vec2(x, y) : x \in {-1, 0, 1}, y \in {-1, 0, 1}}

MoveKeys == {"W", "A", "S", "D"}

Systems == {"spawn_pig", "pig_lifetime", "bumped_by_player",
            "player_movement", "player_hit_wall"}

\* Sequences over S of length at most n.
RECURSIVE SeqsUpTo(_, _)
SeqsUpTo(S, n) ==
    IF n = 0 THEN {<<>>}
    ELSE LET shorter == SeqsUpTo(S, n - 1)
         IN  shorter \cup {Append(s, e) : s \in {t \in shorter : Len(t) = n - 1}, e \in S}

Range(s) == {s[i] : i \in 1..Len(s)}

(* --------------------------- environments ----------------------------- *)

\* What the world outside the program may do in a run: how many pigs may be
\* bought, which movement keys the user ever holds, and how long the
\* collision list of one physics resolution may be.
EnvOpen ==
    [maxSpawns |-> MaxSpawns, keys |-> {{}, {"D"}, {"W"}, {"W", "D"}},
     maxCollisions |-> MaxCollisions]

\* The user stands still and buys pigs until the money runs out.
EnvCrowded ==
    [maxSpawns |-> MaxSpawnsCrowded, keys |-> {{}}, maxCollisions |-> 0]

\* The user holds any of the sixteen sets of movement keys and buys one pig.
EnvKeys ==
    [maxSpawns |-> MaxSpawnsKeys, keys |-> SUBSET MoveKeys, maxCollisions |-> 0]

\* The player walks into one pig and the wall, with collision lists of
\* several entries.
EnvScan ==
    [maxSpawns |-> MaxSpawnsScan, keys |-> {{}, {"D"}},
     maxCollisions |-> MaxCollisionsScan]

\* The player walks into one pig and the wall, one contact at a time.
EnvLive ==
    [maxSpawns |-> MaxSpawnsScan, keys |-> {{}, {"D"}},
     maxCollisions |-> MaxCollisions]

(* ------------------------------ state --------------------------------- *)

VARIABLES
    phase,         \* position in the frame: "First", "Update", "PostUpdate"; "Panicked" after a panic
    torun,         \* systems of the Update schedule that have not run in this frame
    delta,         \* Time::delta of this frame, seconds
    key_events,    \* keyboard events for KeyCode::Space delivered in this frame
    space,         \* Input<KeyCode> for KeyCode::Space: [pressed, just_pressed]
    money,         \* the Money resource
    pigs,          \* entity id -> [lifetime, speed, translation, transform]
    children,      \* the PigParent's children
    next_entity,   \* the id the next spawned pig gets
    commands,      \* Commands queued in this frame: [spawn, remove_children, despawn]
    player,        \* [transform, translation, output, body]
    colliders,     \* pig entities the Rapier context holds a collider for
    wall_hits,     \* "Player hit wall" notifications raised in this frame
    players,       \* the entities that carry the Player component
    keys_held,     \* the movement keys Input<KeyCode> reports pressed, as player_movement read them
    age,           \* history: entity id -> seconds of frame time since the pig was created
    bumped         \* history: pigs whose controller bumped_by_player has written

vars == <<phase, torun, delta, key_events, space, money, pigs, children, next_entity,
          commands, player, colliders, wall_hits, keys_held, players, age, bumped>>

NoCommands == [spawn |-> <<>>, remove_children |-> {}, despawn |-> {}]

Init ==
    /\ phase = "First"
    /\ torun = {}
    /\ delta = 0
    /\ key_events = <<>>
    /\ space = [pressed |-> FALSE, just_pressed |-> FALSE]
    /\ money = InitialMoney
    /\ pigs = <<>>
    /\ children = {}
    /\ next_entity = 1
    /\ commands = NoCommands
    /\ player = [transform |-> Vec2(0, 0), translation |-> None,
                 output |-> None, body |-> FALSE]
    /\ colliders = {}
    /\ wall_hits = 0
    /\ keys_held = {}
    /\ players = {PlayerEntity}
    /\ age = <<>>
    /\ bumped = {}

\* The Update systems are registered with no ordering constraint
\* (add_systems(Update, (..)) without chain, before or after): within a frame
\* each runs once, in any order.
Runnable(system) ==
    /\ phase = "Update"
    /\ system \in torun

\* player.single() and player.get_single().expect("1 Player") succeed when
\* exactly one entity carries the Player component.
OnePlayer == Cardinality(players) = 1

\* Otherwise they panic: the system, and with it the application, stops.
Panic ==
    /\ phase' = "Panicked"
    /\ UNCHANGED <<torun, delta, key_events, space, money, pigs, children,
                   next_entity, commands, player, colliders, wall_hits, keys_held,
                   players, age, bumped>>

(* ------------------------------ timers -------------------------------- *)

\* Timer::from_seconds(30.0, TimerMode::Once)
NewTimer == [elapsed |-> 0, finished |-> FALSE]

\* Timer::tick for a TimerMode::Once timer: a finished timer stays as it is;
\* otherwise the elapsed time grows by the delta, and the timer finishes, with
\* its elapsed time set to the duration, once that reaches the duration.
TickLate(timer, dt) ==
    IF timer.finished THEN timer
    ELSE LET e == timer.elapsed + dt
         IN  IF e > LifetimeSeconds
             THEN [elapsed |-> LifetimeSeconds, finished |-> TRUE]
             ELSE [elapsed |-> e, finished |-> FALSE]

Tick(timer, dt) ==
    IF timer.finished THEN timer
    ELSE LET e == timer.elapsed + dt
         IN  IF e >= LifetimeSeconds
             THEN [elapsed |-> LifetimeSeconds, finished |-> TRUE]
             ELSE [elapsed |-> e, finished |-> FALSE]

(* ------------------------------- input -------------------------------- *)

\* Input::clear, run at the start of each frame.
Clear(inp) == [inp EXCEPT !.just_pressed = FALSE]

\* Input::press: only a key that is not yet pressed becomes just_pressed.
Press(inp) ==
    IF inp.pressed THEN inp ELSE [pressed |-> TRUE, just_pressed |-> TRUE]

\* Input::release leaves just_pressed alone.
Release(inp) == [inp EXCEPT !.pressed = FALSE]

RECURSIVE ApplyEvents(_, _)
ApplyEvents(inp, evs) ==
    IF evs = <<>> THEN inp
    ELSE ApplyEvents(IF Head(evs) = "Pressed" THEN Press(inp) ELSE Release(inp),
                     Tail(evs))

KeyEventSeqs == SeqsUpTo({"Pressed", "Released"}, MaxKeyEvents)

(* ------------------------------ frames -------------------------------- *)

\* The First schedule: Time is updated with the frame's delta and the keyboard
\* events of the frame are folded into Input<KeyCode>.
BeginFrame(env) ==
    /\ phase = "First"
    /\ \E dt \in DtSet, evs \in KeyEventSeqs :
          /\ ("Pressed" \in Range(evs)) => next_entity <= env.maxSpawns
          /\ delta' = dt
          /\ key_events' = evs
          /\ space' = ApplyEvents(Clear(space), evs)
          /\ age' = [e \in DOMAIN age |->
                        IF age[e] + dt > AgeCap THEN AgeCap ELSE age[e] + dt]
    /\ phase' = "Update"
    /\ torun' = Systems
    /\ wall_hits' = 0
    /\ UNCHANGED <<money, pigs, children, next_entity, commands, player,
                   colliders, keys_held, players, bumped>>

(* ------------------------------ spawn_pig ----------------------------- *)

\* The bundle spawn_pig hands to commands.spawn.
PigBundleOffsetY(player_transform) ==
    [lifetime    |-> NewTimer,
     speed       |-> PigSpeed,
     translation |-> InitialTranslation,
     transform   |-> Vec2(player_transform[1], player_transform[2] + SpawnOffsetX)]

PigBundleUnitDirection(player_transform) ==
    [lifetime    |-> NewTimer,
     speed       |-> PigSpeed,
     translation |-> Some(Vec2(100, 0)),
     transform   |-> Vec2(player_transform[1] + SpawnOffsetX, player_transform[2])]

PigBundle(player_transform) ==
    [lifetime    |-> NewTimer,
     speed       |-> PigSpeed,
     translation |-> InitialTranslation,
     transform   |-> Vec2(player_transform[1] + SpawnOffsetX, player_transform[2])]

\* input.just_pressed(KeyCode::Space)
SpawnRequestedHeld(input) == input.pressed

SpawnRequested(input) == input.just_pressed

\* money.0 >= 10.0
CanAffordNonNegative(balance) == balance >= 0

CanAffordStrict(balance) == balance > SpawnThreshold

CanAfford(balance) == balance >= SpawnThreshold

spawn_pig ==
    /\ Runnable("spawn_pig")
    /\ IF SpawnRequested(space) /\ ~OnePlayer
       THEN Panic
       ELSE /\ torun' = torun \ {"spawn_pig"}
            /\ IF SpawnRequested(space) /\ CanAfford(money)
               THEN /\ money' = money - SpawnCost
                    /\ commands' = [commands EXCEPT !.spawn =
                           Append(@, [entity |-> next_entity,
                                      bundle |-> PigBundle(player.transform)])]
                    /\ next_entity' = next_entity + 1
               ELSE UNCHANGED <<money, commands, next_entity>>
            /\ UNCHANGED <<phase, delta, key_events, space, pigs, children, player,
                           colliders, wall_hits, keys_held, players, age, bumped>>

(* ----------------------------- pig_lifetime --------------------------- *)

\* The pigs whose timer is finished after this frame's tick.
Expiring(ps, dt) == {e \in DOMAIN ps : Tick(ps[e].lifetime, dt).finished}

\* money.0 += 15.0, once for each pig of the loop whose timer is finished.
AfterSaleFlat(balance, sold) == balance + SellPrice

AfterSale(balance, sold) == balance + SellPrice * Cardinality(sold)

\* remove_children and despawn, queued for each such pig.
SellCommandsKeepEntity(cmds, sold) ==
    [cmds EXCEPT !.remove_children = @ \cup sold]

SellCommandsWrongEntity(cmds, sold) ==
    [cmds EXCEPT !.remove_children = @ \cup sold,
                 !.despawn = @ \cup {PlayerEntity : e \in sold}]

SellCommands(cmds, sold) ==
    [cmds EXCEPT !.remove_children = @ \cup sold, !.despawn = @ \cup sold]

pig_lifetime ==
    /\ Runnable("pig_lifetime")
    /\ torun' = torun \ {"pig_lifetime"}
    /\ pigs' = [e \in DOMAIN pigs |->
                   [pigs[e] EXCEPT !.lifetime = Tick(@, delta)]]
    /\ money' = AfterSale(money, Expiring(pigs, delta))
    /\ commands' = SellCommands(commands, Expiring(pigs, delta))
    /\ UNCHANGED <<phase, delta, key_events, space, children, next_entity,
                   player, colliders, wall_hits, keys_held, players, age, bumped>>

(* -------------------------- bumped_by_player -------------------------- *)

determine_evasion_translation_y_first(normal1, movement_amount) ==
    IF normal1[2] < 0
    THEN Some(Vec2(movement_factor * movement_amount, movement_factor * movement_amount))
    ELSE IF normal1[2] > 0
    THEN Some(Vec2(-movement_factor * movement_amount, -movement_factor * movement_amount))
    ELSE IF normal1[1] < 0
    THEN Some(Vec2(movement_factor * movement_amount, movement_factor * movement_amount))
    ELSE IF normal1[1] > 0
    THEN Some(Vec2(-movement_factor * movement_amount, -movement_factor * movement_amount))
    ELSE None

determine_evasion_translation(normal1, movement_amount) ==
    IF normal1[1] < 0
    THEN Some(Vec2(movement_factor * movement_amount, movement_factor * movement_amount))
    ELSE IF normal1[1] > 0
    THEN Some(Vec2(-movement_factor * movement_amount, -movement_factor * movement_amount))
    ELSE IF normal1[2] < 0
    THEN Some(Vec2(movement_factor * movement_amount, movement_factor * movement_amount))
    ELSE IF normal1[2] > 0
    THEN Some(Vec2(-movement_factor * movement_amount, -movement_factor * movement_amount))
    ELSE None

\* pig.speed * time.delta_seconds(), in hundredths of a world unit.
PigMovementAmountNoDelta(pig, dt) == pig.speed * 100

PigMovementAmount(pig, dt) == pig.speed * dt * 100

\* The loop over output.collisions: each collision whose entity is a pig
\* overwrites that pig's controller translation.
RECURSIVE BumpAllFirstWins(_, _, _)
BumpAllFirstWins(ps, collisions, dt) ==
    IF collisions = <<>> THEN ps
    ELSE LET c == Head(collisions)
             rest == BumpAllFirstWins(ps, Tail(collisions), dt)
         IN  IF c.entity \in DOMAIN ps
             THEN [rest EXCEPT ![c.entity].translation =
                      determine_evasion_translation(
                          c.normal1, PigMovementAmount(ps[c.entity], dt))]
             ELSE rest

RECURSIVE BumpAllResetsLifetime(_, _, _)
BumpAllResetsLifetime(ps, collisions, dt) ==
    IF collisions = <<>> THEN ps
    ELSE LET c == Head(collisions)
             next == IF c.entity \in DOMAIN ps
                     THEN [ps EXCEPT ![c.entity].translation =
                              determine_evasion_translation(
                                  c.normal1, PigMovementAmount(ps[c.entity], dt)),
                                     ![c.entity].lifetime = NewTimer]
                     ELSE ps
         IN  BumpAllResetsLifetime(next, Tail(collisions), dt)

RECURSIVE BumpAll(_, _, _)
BumpAll(ps, collisions, dt) ==
    IF collisions = <<>> THEN ps
    ELSE LET c == Head(collisions)
             next == IF c.entity \in DOMAIN ps
                     THEN [ps EXCEPT ![c.entity].translation =
                              determine_evasion_translation(
                                  c.normal1, PigMovementAmount(ps[c.entity], dt))]
                     ELSE ps
         IN  BumpAll(next, Tail(collisions), dt)

\* The collisions of the player's KinematicCharacterControllerOutput, if any.
CollisionsNone(pl) == <<>>

Collisions(pl) == IF pl.output = None THEN <<>> ELSE pl.output[1]

bumped_by_player ==
    /\ Runnable("bumped_by_player")
    /\ IF ~OnePlayer
       THEN Panic
       ELSE /\ torun' = torun \ {"bumped_by_player"}
            /\ pigs' = BumpAll(pigs, Collisions(player), delta)
            /\ bumped' = bumped \cup
                   {c.entity : c \in {d \in Range(Collisions(player)) :
                                         d.entity \in DOMAIN pigs}}
            /\ UNCHANGED <<phase, delta, key_events, space, money, children,
                           next_entity, commands, player, colliders, wall_hits,
                           keys_held, players, age>>

(* --------------------------- player_movement -------------------------- *)

\* A component of the player's requested translation: n hundredths of a world
\* unit times FRAC_1_SQRT_2 to the power k.
Comp(n, k) == <<n, k>>

normalize_diagonal_movement_x_only(target_y_movement, target_x_movement) ==
    IF target_x_movement[1] # 0 /\ target_y_movement[1] # 0
    THEN <<target_y_movement,
           Comp(target_x_movement[1], target_x_movement[2] + 1)>>
    ELSE <<target_y_movement, target_x_movement>>

normalize_diagonal_movement(target_y_movement, target_x_movement) ==
    IF target_x_movement[1] # 0 /\ target_y_movement[1] # 0
    THEN <<Comp(target_y_movement[1], target_y_movement[2] + 1),
           Comp(target_x_movement[1], target_x_movement[2] + 1)>>
    ELSE <<target_y_movement, target_x_movement>>

\* The translation player_movement requests when the keys in held are pressed.
PlayerRequest(held, dt) ==
    LET movement_amount == PlayerSpeed * dt * 100
        target_y == IF "W" \in held THEN Comp(movement_amount, 0)
                    ELSE IF "S" \in held THEN Comp(-movement_amount, 0)
                    ELSE Comp(0, 0)
        target_x == IF "D" \in held THEN Comp(movement_amount, 0)
                    ELSE IF "A" \in held THEN Comp(-movement_amount, 0)
                    ELSE Comp(0, 0)
        yx == normalize_diagonal_movement(target_y, target_x)
    IN  Vec2(yx[2], yx[1])

player_movement(env) ==
    /\ Runnable("player_movement")
    /\ IF ~OnePlayer
       THEN Panic
       ELSE /\ torun' = torun \ {"player_movement"}
            /\ \E pressed \in env.keys :
                  /\ keys_held' = pressed
                  /\ player' = [player EXCEPT !.translation =
                                    Some(PlayerRequest(pressed, delta))]
            /\ UNCHANGED <<phase, delta, key_events, space, money, pigs, children,
                           next_entity, commands, colliders, wall_hits, players,
                           age, bumped>>

(* --------------------------- player_hit_wall -------------------------- *)

Walls == {WallEntity}

\* The number of collisions of the list whose entity is a wall.
WallCollisionsAny(collisions) == Len(collisions)

RECURSIVE WallCollisions(_)
WallCollisions(collisions) ==
    IF collisions = <<>> THEN 0
    ELSE (IF Head(collisions).entity \in Walls THEN 1 ELSE 0)
         + WallCollisions(Tail(collisions))

player_hit_wall ==
    /\ Runnable("player_hit_wall")
    /\ IF ~OnePlayer
       THEN Panic
       ELSE /\ torun' = torun \ {"player_hit_wall"}
            /\ wall_hits' = wall_hits + WallCollisions(Collisions(player))
            /\ UNCHANGED <<phase, delta, key_events, space, money, pigs, children,
                           next_entity, commands, player, colliders, keys_held,
                           players, age, bumped>>

(* ---------------------------- ApplyDeferred --------------------------- *)

Spawned(cmds) == {cmds.spawn[i].entity : i \in 1..Len(cmds.spawn)}

BundleOf(cmds, e) ==
    (CHOOSE c \in Range(cmds.spawn) : c.entity = e).bundle

\* The end of the Update schedule: the queued commands take effect.
ApplyDeferred ==
    /\ phase = "Update"
    /\ torun = {}
    /\ phase' = "PostUpdate"
    /\ LET born == Spawned(commands)
           kept == DOMAIN pigs \ commands.despawn
       IN  /\ pigs' = [e \in kept \cup born |->
                          IF e \in born THEN BundleOf(commands, e) ELSE pigs[e]]
           /\ children' = (children \ commands.remove_children) \cup born
           /\ age' = [e \in kept \cup born |-> IF e \in born THEN 0 ELSE age[e]]
    /\ players' = players \ commands.despawn
    /\ commands' = NoCommands
    /\ UNCHANGED <<torun, delta, key_events, space, money, next_entity, player,
                   colliders, wall_hits, keys_held, bumped>>

(* ------------------------------- Physics ------------------------------ *)

\* The physics collaborator resolves a requested translation to the effective
\* one.  The model samples, per axis, no movement and, for a request of at
\* least one lattice step, one step in the requested direction.
AxisMoves(n) ==
    {0} \cup (IF Abs(n) >= Stride * 100 THEN {Sign(n) * Stride} ELSE {})

InWorld(v) ==
    /\ v[1] \in 0..MaxCoord
    /\ v[2] \in 0..MaxCoord

\* The places a body at transform may end at for the requested components.
Resolved(transform, nx, ny) ==
    {v \in {Vec2(transform[1] + dx, transform[2] + dy) :
               dx \in AxisMoves(nx), dy \in AxisMoves(ny)} :
        v = transform \/ InWorld(v)}

\* The wall stands left of the player (main.rs: x = -100).
WallNormal == Vec2(1, 0)

\* What one entry of the player's collision list may be.
Contacts ==
    {[entity |-> e, normal1 |-> n] : e \in colliders, n \in Normals}
    \cup {[entity |-> w, normal1 |-> WallNormal] : w \in Walls}

\* PostUpdate: update_character_controls moves every character controller
\* that has a collider and a requested translation, records the player's
\* collisions and takes the request; then the colliders of new entities are
\* created and those of despawned entities removed.  No system reads a pig's
\* Transform, and the model leaves the displacement of pigs out: transform
\* stays the place the pig was spawned at.
Physics(env) ==
    /\ phase = "PostUpdate"
    /\ phase' = "First"
    /\ IF player.body /\ player.translation # None
       THEN LET req == player.translation[1]
                still == req[1][1] = 0 /\ req[2][1] = 0
            IN  \E to \in Resolved(player.transform, req[1][1], req[2][1]),
                   cs \in SeqsUpTo(Contacts, IF still THEN 0 ELSE env.maxCollisions) :
                   player' = [transform |-> to, translation |-> None,
                              output |-> Some(cs), body |-> TRUE]
       ELSE player' = [player EXCEPT !.body = TRUE]
    /\ pigs' = [e \in DOMAIN pigs |->
                   IF e \in colliders
                   THEN [pigs[e] EXCEPT !.translation = None]
                   ELSE pigs[e]]
    /\ colliders' = DOMAIN pigs
    \* Time and the event buffer are rewritten by BeginFrame before any system
    \* reads them: between frames the model holds them at their initial value.
    /\ delta' = 0
    /\ key_events' = <<>>
    /\ keys_held' = {}
    /\ UNCHANGED <<torun, space, money, children, next_entity,
                   commands, wall_hits, players, age, bumped>>

(* --------------------------- specifications --------------------------- *)

Next(env) ==
    \/ BeginFrame(env)
    \/ spawn_pig
    \/ pig_lifetime
    \/ bumped_by_player
    \/ player_movement(env)
    \/ player_hit_wall
    \/ ApplyDeferred
    \/ Physics(env)

NextOpen == Next(EnvOpen)

NextCrowded == Next(EnvCrowded)

\* The open world: the player moves and touches pigs and the wall.
Spec == Init /\ [][NextOpen]_vars

\* The crowded world: the player stands still and buys pigs.
SpecCrowded == Init /\ [][NextCrowded]_vars

NextKeys == Next(EnvKeys)

\* The world of all movement keys.
SpecKeys == Init /\ [][NextKeys]_vars

NextScan == Next(EnvScan)

\* The world of long collision lists.
SpecScan == Init /\ [][NextScan]_vars

\* A frame of positive delta begins.
TickPositive(env) == BeginFrame(env) /\ delta' > 0

NextLive == Next(EnvLive)

\* The world of one pig, run on: the application keeps running its schedule,
\* and frames of positive delta keep occurring.
SpecLive ==
    Init /\ [][NextLive]_vars /\ WF_vars(NextLive) /\ SF_vars(TickPositive(EnvLive))


(* ------------------------------- claims ------------------------------- *)

\* The step of one Update system within a frame.
Ran(system) == system \in torun /\ system \notin torun'

\* C1: in every reachable state the Money balance is not negative.
C1_MoneyNeverNegative == money >= 0

\* C1 witness: the balance is spent down to 0 and a further spawn press has
\* been handled by spawn_pig.
C1_Witness ==
    /\ money = 0
    /\ phase = "Update"
    /\ space.just_pressed
    /\ "spawn_pig" \notin torun
    /\ Cardinality(DOMAIN pigs) = 10

\* C2: a spawn press handled while the balance is below 10 changes nothing
\* (no pig is queued or created, the balance, the existing pigs and their
\* timers stay as they are), and a spawn press succeeds, queueing one pig,
\* exactly when the balance is at least 10.
C2_RejectedSpawnChangesNothing ==
    [][(Ran("spawn_pig") /\ space.just_pressed) =>
          /\ (money < 10) =>
                UNCHANGED <<phase, delta, key_events, space, money, pigs, children,
                            next_entity, commands, player, colliders, wall_hits,
                            keys_held, players, age, bumped>>
          /\ (Len(commands'.spawn) = Len(commands.spawn) + 1) <=> (money >= 10)
          /\ (commands' # commands) <=> (money >= 10)]_vars

\* C2 witness: spawn_pig has handled a press with a balance below 10 while pigs
\* are alive, and nothing was queued.
C2_Witness ==
    /\ phase = "Update"
    /\ space.just_pressed
    /\ "spawn_pig" \notin torun
    /\ "pig_lifetime" \in torun
    /\ money < 10
    /\ commands.spawn = <<>>
    /\ pigs # <<>>

\* C3: the balance changes only in the steps of spawn_pig and pig_lifetime: in
\* every step it changes by -10 if the step queues a pig and by +15 for each
\* pig whose lifetime timer finishes in the step, and by nothing else; the
\* steps of player_movement, player_hit_wall, bumped_by_player, of the frame's
\* start, of the commands and of the physics leave it as it is.
C3_BalanceChangesOnlyBySpawnAndExpiry ==
    [][LET queued == IF Len(commands'.spawn) > Len(commands.spawn) THEN 1 ELSE 0
           done == {e \in DOMAIN pigs \cap DOMAIN pigs' :
                       ~pigs[e].lifetime.finished /\ pigs'[e].lifetime.finished}
       IN  /\ money' = money - 10 * queued + 15 * Cardinality(done)
           /\ (queued = 1) => Ran("spawn_pig")
           /\ (done # {}) => Ran("pig_lifetime")
           /\ (~Ran("spawn_pig") /\ ~Ran("pig_lifetime")) => money' = money]_vars

\* C3 witness: in one frame, in which the player moves, a pig was bought and
\* the lifetime of another pig, one that was bumped, finished.
C3_Witness ==
    /\ phase = "Update"
    /\ torun = {}
    /\ Len(commands.spawn) = 1
    /\ commands.despawn \cap bumped # {}
    /\ money = InitialMoney - 2 * SpawnCost + SellPrice
    /\ player.translation # None

\* C4: a pig lives until the frame in which the time since its creation
\* reaches 30 s: no pig is queued for destruction earlier, none survives that
\* frame, and the pig_lifetime step of that frame credits 15 for each such
\* pig, bumped or not.  With one spawn and no other, the balance is 90 while
\* the pig lives and 105 once it is gone.
C4_ExpiresAtThirtySeconds ==
    [][/\ \A e \in commands'.despawn : age'[e] >= 30 /\ age'[e] - delta' < 30
       /\ (phase' # "Update") => \A e \in DOMAIN pigs' : age'[e] < 30
       /\ Ran("pig_lifetime") =>
             /\ money' = money + 15 * Cardinality({e \in DOMAIN pigs : age[e] >= 30})
             /\ commands'.despawn = {e \in DOMAIN pigs : age[e] >= 30}
       /\ (phase' = "First" /\ next_entity' = 2) =>
             money' = IF pigs' = <<>> THEN 105 ELSE 90]_vars

\* C4 witness: the only pig ever bought was bumped by the player, has expired
\* and has been paid for.
C4_Witness ==
    /\ phase = "First"
    /\ next_entity = 2
    /\ pigs = <<>>
    /\ 1 \in bumped
    /\ money = 105

\* C5: every pig is credited exactly once: the balance is 100, less 10 for
\* each pig bought, plus 15 for each pig that is gone or queued to go; outside
\* the Update schedule no live pig has a finished timer and the pig group
\* holds exactly the live pigs, so a pig is removed from the group and
\* destroyed in the frame in which its timer finishes and no later frame
\* ticks or credits it.
C5_ExpiryOncePerPig ==
    LET bought == next_entity - 1
        unsold == Cardinality(DOMAIN pigs \ commands.despawn) + Len(commands.spawn)
    IN  /\ money = 100 - 10 * bought + 15 * (bought - unsold)
        /\ commands.despawn \subseteq DOMAIN pigs
        /\ commands.remove_children = commands.despawn
        /\ (phase # "Update") =>
              /\ children = DOMAIN pigs
              /\ \A e \in DOMAIN pigs : ~pigs[e].lifetime.finished
        /\ \A e \in DOMAIN pigs : e < next_entity

\* C5 witness: between two frames, several pigs have expired and others live.
C5_Witness ==
    /\ phase = "First"
    /\ next_entity - 1 - Cardinality(DOMAIN pigs) >= 2
    /\ Cardinality(DOMAIN pigs) >= 2

\* C6: spawn_pig handling a press with a balance of at least 10 lowers the
\* balance by exactly 10 and queues exactly one pig, at the player's position
\* of that frame offset by (32, 0); the commands of the frame create exactly
\* the queued pig, at that place.
C6_SpawnCostsTenAndPlacesPig ==
    [][/\ (Ran("spawn_pig") /\ space.just_pressed /\ money >= 10) =>
             /\ money' = money - 10
             /\ Len(commands'.spawn) = Len(commands.spawn) + 1
             /\ commands'.spawn[Len(commands'.spawn)].bundle.transform
                    = <<player.transform[1] + 32, player.transform[2]>>
       /\ (phase = "Update" /\ phase' = "PostUpdate") =>
             /\ Cardinality(DOMAIN pigs' \ DOMAIN pigs) = Len(commands.spawn)
             /\ Len(commands.spawn) <= 1
             /\ \A e \in DOMAIN pigs' \ DOMAIN pigs :
                   pigs'[e].transform
                       = <<player.transform[1] + 32, player.transform[2]>>]_vars

\* C6 witness: a pig was created while the player stood away from the origin
\* on both axes.
C6_Witness ==
    \E e \in DOMAIN pigs :
        /\ pigs[e].transform[2] # 0
        /\ pigs[e].transform[1] # 32
        /\ age[e] = 0

\* A pig that no physics resolution has seen yet.
Fresh(e) == e \in DOMAIN pigs /\ e \notin colliders /\ age[e] = 0

\* C7 as stated: every pig starts with a 30 s one-shot lifetime, a movement
\* speed of 25 and the initial direction (1, 0).  (The direction-change timer
\* of the claim has no counterpart in the Pig of the code.)
C7_StartsWithSpeed25 ==
    \A e \in DOMAIN pigs :
        Fresh(e) =>
            /\ pigs[e].lifetime = [elapsed |-> 0, finished |-> FALSE]
            /\ pigs[e].speed = 25
            /\ pigs[e].translation = <<(<<100, 0>>)>>

\* C7 as amended: every pig starts with a 30 s one-shot lifetime (nothing
\* elapsed, never more than 30 s elapsed, finished exactly at 30 s), a
\* movement speed of 100 and the requested translation (0.01, 0), and has no
\* further field: no direction and no direction-change timer.
C7_StartsWithSpeed100 ==
    /\ \A i \in 1..Len(commands.spawn) :
          /\ commands.spawn[i].bundle.lifetime = [elapsed |-> 0, finished |-> FALSE]
          /\ commands.spawn[i].bundle.speed = 100
          /\ commands.spawn[i].bundle.translation = <<(<<1, 0>>)>>
          /\ DOMAIN commands.spawn[i].bundle
                 = {"lifetime", "speed", "translation", "transform"}
    /\ \A e \in DOMAIN pigs :
          /\ DOMAIN pigs[e] = {"lifetime", "speed", "translation", "transform"}
          /\ pigs[e].speed = 100
          /\ pigs[e].lifetime.elapsed <= 30
          /\ pigs[e].lifetime.finished <=> pigs[e].lifetime.elapsed = 30
          /\ Fresh(e) =>
                /\ pigs[e].lifetime = [elapsed |-> 0, finished |-> FALSE]
                /\ pigs[e].translation = <<(<<1, 0>>)>>

\* C7 witness: a pig has just been created.
C7_Witness ==
    /\ phase = "PostUpdate"
    /\ \E e \in DOMAIN pigs : Fresh(e)

\* C8: a pig is queued only by the spawn_pig step of a frame whose events
\* took the spawn key from not pressed to pressed; a frame through which the
\* key stays held (no release event) does not do so, whatever press events
\* repeat, so that frame queues no pig and spends nothing; and no frame queues
\* more than one pig.
C8_SpawnIsEdgeTriggered ==
    [][/\ (phase = "First" /\ phase' = "Update") =>
             /\ space'.just_pressed <=>
                    \E i \in 1..Len(key_events') :
                        /\ key_events'[i] = "Pressed"
                        /\ \/ \E j \in 1..(i - 1) : key_events'[j] = "Released"
                           \/ ~space.pressed
             /\ (space.pressed /\ "Released" \notin Range(key_events')) =>
                    ~space'.just_pressed /\ space'.pressed
       /\ (commands'.spawn # commands.spawn /\ commands'.spawn # <<>>) =>
             Ran("spawn_pig") /\ space.just_pressed
       /\ (Ran("spawn_pig") /\ ~space.just_pressed) =>
             money' = money /\ commands' = commands
       /\ Len(commands'.spawn) <= 1]_vars

\* C8 witness: the key was held through a whole frame in which a press event
\* repeated and the balance would have paid for a pig, and no pig was queued.
C8_Witness ==
    /\ phase = "Update"
    /\ torun = {}
    /\ space.pressed
    /\ ~space.just_pressed
    /\ "Pressed" \in Range(key_events)
    /\ money >= 10
    /\ commands.spawn = <<>>

\* The last collision of the player's list that touches pig e, if any.
LastHit(e) ==
    LET cs == Collisions(player)
        hits == {i \in 1..Len(cs) : cs[i].entity = e}
    IN  IF hits = {} THEN None
        ELSE Some(cs[CHOOSE i \in hits : \A j \in hits : j <= i])

\* The pigs bumped_by_player has written in this frame.
BumpedNow ==
    IF phase = "Update" /\ "bumped_by_player" \notin torun
    THEN {e \in DOMAIN pigs : LastHit(e) # None}
    ELSE {}

\* C9: the translation bumped_by_player gives a touched pig follows the
\* ladder on the contact normal: x < 0 gives (+a, +a), x > 0 gives (-a, -a),
\* otherwise y < 0 gives (+a, +a) and y > 0 gives (-a, -a), with a >= 0, and
\* a > 0 in a frame of positive delta; the sign of y is not looked at when
\* x is not 0.
C9_EvasionLadder ==
    \A e \in BumpedNow :
        LET n == LastHit(e)[1].normal1
            t == pigs[e].translation
            up == t # None /\ t[1][1] = t[1][2] /\ t[1][1] >= 0
                  /\ (delta > 0 => t[1][1] > 0)
            down == t # None /\ t[1][1] = t[1][2] /\ t[1][1] <= 0
                    /\ (delta > 0 => t[1][1] < 0)
        IN  /\ (n[1] < 0) => up
            /\ (n[1] > 0) => down
            /\ (n[1] = 0 /\ n[2] < 0) => up
            /\ (n[1] = 0 /\ n[2] > 0) => down

\* C9 witness: in a frame of positive delta a pig was touched with a normal
\* whose x is negative and whose y is positive.
C9_Witness ==
    /\ delta > 0
    /\ \E e \in BumpedNow : LastHit(e)[1].normal1 = <<-1, 1>>

\* C10 as stated: each component of the translation given to a touched pig
\* has the magnitude 6 x speed x dt (in hundredths of a world unit).
C10_EvasionMagnitudeSix ==
    \A e \in BumpedNow :
        pigs[e].translation # None =>
            /\ Abs(pigs[e].translation[1][1]) = 6 * pigs[e].speed * delta * 100
            /\ Abs(pigs[e].translation[1][2]) = 6 * pigs[e].speed * delta * 100

\* C10 as amended: each component of the translation given to a touched pig
\* has the magnitude 12 x speed x dt, the speed being 100.
C10_EvasionMagnitudeTwelve ==
    \A e \in BumpedNow :
        pigs[e].translation # None =>
            /\ Abs(pigs[e].translation[1][1]) = 12 * pigs[e].speed * delta * 100
            /\ Abs(pigs[e].translation[1][2]) = 12 * pigs[e].speed * delta * 100
            /\ pigs[e].speed = 100

\* C10 witness: a pig was given an evasion translation in a frame of positive
\* delta.
C10_Witness ==
    /\ delta > 0
    /\ \E e \in BumpedNow : pigs[e].translation # None

\* The timers a pig carries.
PigTimers(p) == DOMAIN p \ {"speed", "translation", "transform"}

\* The vector the ladder gives for a non-zero normal n and the amount a.
Evasion(n, a) ==
    LET s == IF n[1] < 0 THEN 1 ELSE IF n[1] > 0 THEN -1
             ELSE IF n[2] < 0 THEN 1 ELSE -1
    IN  <<s * a, s * a>>

\* C11 as stated: a pig touched with a non-zero normal has the evasion vector
\* as its direction and a direction-change timer, other than its lifetime,
\* that was reset in the frame of the contact scan.
C11_DirectionAndTimerReset ==
    \A e \in BumpedNow :
        LastHit(e)[1].normal1 # <<0, 0>> =>
            /\ pigs[e].translation
                   = <<Evasion(LastHit(e)[1].normal1, 12 * pigs[e].speed * delta * 100)>>
            /\ \E f \in PigTimers(pigs[e]) \ {"lifetime"} : pigs[e][f].elapsed = 0

\* C11 as amended: the bumped_by_player step overwrites the requested
\* translation of every pig the player touched, the last contact with a pig
\* deciding, with the evasion vector of that contact when its normal is not
\* zero; the pig's only timer is its lifetime, which the step leaves alone,
\* as it does the pig's speed and place.
C11_TranslationOverwritten ==
    [][Ran("bumped_by_player") =>
          \A e \in DOMAIN pigs :
              /\ e \in DOMAIN pigs'
              /\ PigTimers(pigs'[e]) = {"lifetime"}
              /\ pigs'[e].lifetime = pigs[e].lifetime
              /\ pigs'[e].speed = pigs[e].speed
              /\ pigs'[e].transform = pigs[e].transform
              /\ (LastHit(e) = <<>>) => pigs'[e].translation = pigs[e].translation
              /\ (LastHit(e) # <<>> /\ LastHit(e)[1].normal1 # <<0, 0>>) =>
                    pigs'[e].translation
                        = <<Evasion(LastHit(e)[1].normal1,
                                    12 * pigs[e].speed * delta * 100)>>]_vars

\* C11 witness: in a frame of positive delta the player's list held two
\* contacts with one pig, the last with the normal (-1, 0), and the pig was
\* given (+a, +a).
C11_Witness ==
    /\ delta = DtUnit
    /\ \E e \in BumpedNow :
          /\ Len(Collisions(player)) = 2
          /\ Collisions(player)[1] = [entity |-> e, normal1 |-> <<1, 0>>]
          /\ LastHit(e)[1].normal1 = <<-1, 0>>
          /\ pigs[e].translation
                 = <<(<<12 * 100 * DtUnit * 100, 12 * 100 * DtUnit * 100>>)>>

\* The contacts of a list whose normal is not zero on both axes.
RECURSIVE NonZeroContacts(_)
NonZeroContacts(cs) ==
    IF cs = <<>> THEN <<>>
    ELSE IF Head(cs).normal1 = <<0, 0>> THEN NonZeroContacts(Tail(cs))
    ELSE <<Head(cs)>> \o NonZeroContacts(Tail(cs))

\* C12: a contact whose normal is zero on both axes is a no-op for the
\* touched pig: after the bumped_by_player step every pig's requested
\* translation is what the scan gives with the zero-normal contacts left out
\* of the list (a pig touched only with zero normals keeps the request it had
\* before the scan), nothing being cleared or overwritten by such a contact.
C12_ZeroNormalIsNoOp ==
    [][Ran("bumped_by_player") =>
          \A e \in DOMAIN pigs :
              pigs'[e].translation
                  = BumpAll(pigs, NonZeroContacts(Collisions(player)), delta)[e].translation]_vars

C14_OpposingKeysCancel ==
    [][Ran("player_movement") =>
          /\ ({"W", "S"} \subseteq keys_held') => player'.translation[1][2][1] = 0
          /\ ({"A", "D"} \subseteq keys_held') => player'.translation[1][1][1] = 0]_vars

\* A component <<n, k>> of a player request, n hundredths of a world unit
\* times FRAC_1_SQRT_2 to the power k, in units of speed x 1 s: the seconds of
\* movement it stands for, and four times its square.
Seconds(c) == c[1] \div (PlayerSpeed * 100)

FourSquare(c) == Seconds(c) * Seconds(c) * 2 ^ (2 - c[2])

\* C15: for every set of pressed movement keys the translation
\* player_movement requests is zero or has the magnitude speed x dt: with both
\* axes non-zero each component is +-speed x dt times FRAC_1_SQRT_2, with one
\* axis non-zero that component is +-speed x dt unscaled, and either way the
\* squares of the two components add up to (speed x dt)^2.  (FRAC_1_SQRT_2 is
\* taken as the exact 1/sqrt(2); the f32 product differs from it by rounding.)
C15_DiagonalMagnitude ==
    [][Ran("player_movement") =>
          LET x == player'.translation[1][1]
              y == player'.translation[1][2]
          IN  /\ x[1] = Seconds(x) * PlayerSpeed * 100
              /\ y[1] = Seconds(y) * PlayerSpeed * 100
              /\ Abs(Seconds(x)) \in {0, delta}
              /\ Abs(Seconds(y)) \in {0, delta}
              /\ (x[1] # 0 /\ y[1] # 0) => x[2] = 1 /\ y[2] = 1
              /\ (x[1] = 0 \/ y[1] = 0) => x[2] = 0 /\ y[2] = 0
              /\ (x[1] # 0 \/ y[1] # 0) =>
                     FourSquare(x) + FourSquare(y) = 4 * delta * delta
              /\ (x[1] # 0) <=> (delta > 0 /\ keys_held' \cap {"A", "D"} # {})
              /\ (y[1] # 0) <=> (delta > 0 /\ keys_held' \cap {"W", "S"} # {})]_vars

\* C15 witness: with S and D pressed in a frame of positive delta the request
\* is (+a, -a), each component scaled once.
C15_Witness ==
    /\ phase = "Update"
    /\ "player_movement" \notin torun
    /\ delta = DtUnit
    /\ keys_held = {"S", "D"}
    /\ player.translation
           = <<(<<(<<PlayerSpeed * DtUnit * 100, 1>>), (<<-PlayerSpeed * DtUnit * 100, 1>>)>>)>>

\* The list of contacts the last physics step left in the player's output.
Touched == IF player.output = <<>> THEN <<>> ELSE player.output[1]

\* The player's request asks for no movement.
RequestsNothing == player.translation[1][1][1] = 0 /\ player.translation[1][2][1] = 0

\* C16: the contact scan of a frame reads the list the physics step of the
\* frame before left, made from the movement requested in that frame, and
\* nothing of the movement requested in its own frame: only the physics
\* step, after all systems of the frame, writes the list; once the player has
\* a body every physics step resolves the request of its frame and replaces
\* the list, with no contact for a request of no movement; player_movement
\* leaves list and pigs alone; and bumped_by_player writes exactly the pigs
\* of the list, whether player_movement has run before it or not.
C16_EvasionLagsOneResolution ==
    [][/\ (player'.output # player.output) =>
             phase = "PostUpdate" /\ phase' = "First"
       /\ (phase = "PostUpdate" /\ player.body) =>
             /\ player.translation # <<>>
             /\ player'.output # <<>>
             /\ player'.translation = <<>>
             /\ RequestsNothing => player'.output = <<(<<>>)>>
       /\ Ran("player_movement") => pigs' = pigs /\ player'.output = player.output
       /\ Ran("bumped_by_player") =>
             \A e \in DOMAIN pigs :
                 LET hit == \E i \in 1..Len(Touched) : Touched[i].entity = e
                     hard == \E i \in 1..Len(Touched) :
                                 /\ Touched[i].entity = e
                                 /\ Touched[i].normal1 # <<0, 0>>
                                 /\ \A j \in (i + 1)..Len(Touched) : Touched[j].entity # e
                 IN  /\ ~hit => pigs'[e] = pigs[e]
                     /\ hard => pigs'[e].translation # <<>>]_vars

\* C16 witness: in a frame in which the player requests no movement, and
\* player_movement ran first, the scan makes a pig evade the contact of the
\* frame before.
C16_Witness ==
    /\ phase = "Update"
    /\ torun = {}
    /\ player.translation # <<>>
    /\ RequestsNothing
    /\ \E i \in 1..Len(Touched) :
          /\ Touched[i].entity \in DOMAIN pigs
          /\ pigs[Touched[i].entity].translation # <<>>

\* C17: in every state exactly one entity carries the Player component, the
\* one created at startup: no queued command despawns it, no spawned entity
\* and no pig is it, and no system has met a missing or second player, which
\* each system that asks for the player answers with a panic.
C17_OnePlayerAlways ==
    /\ players = {PlayerEntity}
    /\ phase # "Panicked"
    /\ PlayerEntity \notin commands.despawn
    /\ PlayerEntity \notin commands.remove_children
    /\ PlayerEntity \notin DOMAIN pigs
    /\ \A i \in 1..Len(commands.spawn) : commands.spawn[i].entity # PlayerEntity

\* C17 witness: the despawn commands of a frame have been applied, all pigs
\* bought so far are gone, and the player is there.
C17_Witness ==
    /\ phase = "PostUpdate"
    /\ next_entity > 2
    /\ pigs = <<>>
    /\ players = {PlayerEntity}

\* C18: the player_hit_wall step raises one notification for each entry of
\* the player's list whose entity is the wall and none for any other entry,
\* and changes nothing else: not the balance, the pigs, the player, the
\* queued commands or the pig group.
C18_WallHitsOnlyForWalls ==
    [][Ran("player_hit_wall") =>
          /\ wall_hits' = wall_hits
                 + Cardinality({i \in 1..Len(Touched) : Touched[i].entity = WallEntity})
          /\ UNCHANGED <<phase, delta, key_events, space, money, pigs, children,
                         next_entity, commands, player, colliders, keys_held,
                         players, age, bumped>>]_vars

\* C18 witness: the player's list held the wall and a live pig, and one
\* notification was raised.
C18_Witness ==
    /\ phase = "Update"
    /\ "player_hit_wall" \notin torun
    /\ Len(Touched) = 2
    /\ Touched[1].entity = WallEntity
    /\ Touched[2].entity \in DOMAIN pigs
    /\ wall_hits = 1

\* What a frame's spawn_pig and pig_lifetime leave, from the state before
\* both, when spawn_pig runs first and when pig_lifetime runs first: the
\* balance, whether a pig is queued, and the pigs queued for destruction.
SpawnThenExpiry ==
    LET bought == SpawnRequested(space) /\ CanAfford(money)
        paid == IF bought THEN money - SpawnCost ELSE money
    IN  [money |-> AfterSale(paid, Expiring(pigs, delta)),
         spawned |-> bought,
         despawned |-> SellCommands(commands, Expiring(pigs, delta)).despawn]

ExpiryThenSpawn ==
    LET sold == AfterSale(money, Expiring(pigs, delta))
        bought == SpawnRequested(space) /\ CanAfford(sold)
    IN  [money |-> IF bought THEN sold - SpawnCost ELSE sold,
         spawned |-> bought,
         despawned |-> SellCommands(commands, Expiring(pigs, delta)).despawn]

\* C19: whenever spawn_pig and pig_lifetime are both still to run in a
\* frame, running spawn_pig first and running pig_lifetime first leave the
\* same balance and the same pigs.
C19_SpawnExpiryOrderIrrelevant ==
    (phase = "Update" /\ {"spawn_pig", "pig_lifetime"} \subseteq torun) =>
        SpawnThenExpiry = ExpiryThenSpawn

\* C20: every pig that exists is eventually removed, whatever spawn presses
\* and contacts of the player happen meanwhile, provided frames of positive
\* delta keep occurring.
C20_EveryPigEventuallyRemoved ==
    \A e \in 1..MaxSpawnsScan : (e \in DOMAIN pigs) ~> (e \notin DOMAIN pigs)

\* C20 witness: every pig that could be bought was bought, bumped by the
\* player, removed and paid for.
C20_Witness ==
    /\ phase = "First"
    /\ next_entity = MaxSpawnsScan + 1
    /\ bumped = 1..MaxSpawnsScan
    /\ pigs = <<>>
    /\ money = InitialMoney + MaxSpawnsScan * (SellPrice - SpawnCost)

====
